---- MODULE Spec2Model ----
(***************************************************************************)
(* Daily per-user contact-view quota of the dashboard application.         *)
(*                                                                         *)
(* The model covers the quota library (src/lib/contact-view-limit.ts), the *)
(* ContactViewLimit table with its @@unique([userId, date]) constraint,    *)
(* and the three callers of the library: GET /api/contacts/[id], the       *)
(* contact detail page and GET /api/view-stats.  Every request handler is  *)
(* an async function; one action of the model is one stretch of a handler  *)
(* between two awaits that reach the database, so that handlers of         *)
(* different requests interleave exactly at their storage calls.           *)
(*                                                                         *)
(* The wall clock counts ticks, TicksPerDay to the UTC calendar day; a key  *)
(* date (UTC midnight of a day) is written as the number of its day.  A    *)
(* storage call reads the clock (getStartOfToday) and runs its query in    *)
(* one step: the key is fixed when the call is made, and a query on a      *)
(* fixed key commutes with the clock moving on.  Handlers see nothing of   *)
(* the clock but its UTC day, so Spec moves it a day at a time; SpecClock  *)
(* moves it tick by tick.                                                  *)
(***************************************************************************)
EXTENDS Integers, FiniteSets

\* ---------------------------------------------------------------- bounds
NumReq == 2          \* request handlers that may be in flight together
MaxDay == 1          \* UTC days 0..MaxDay are covered by the wall clock
TicksPerDay == 2     \* resolution of the wall clock: instants per UTC day

\* ------------------------------------------------------------- constants
\* DAILY_CONTACT_VIEW_LIMIT of the deployment under analysis.
DAILY_LIMIT == 2

Users == {"u1", "u2"}
NoUser == "anonymous"          \* auth() returned no userId
Days == 0..MaxDay
Reqs == 1..NumReq
NoDay == -1
NoCount == -1
NoStats == [used |-> NoCount, remaining |-> NoCount, limit |-> NoCount]

VARIABLES
    rows,     \* the ContactViewLimit table: a set of rows
    now,      \* the wall clock (new Date()), in ticks since UTC midnight of day 0
    req,      \* per request handler: its position and its local variables
    rows0,    \* history: the table as it was at the start
    atLimit   \* history: per (userId, day), the number of that user's other
              \* requests in flight when the count reached DAILY_LIMIT

vars == <<rows, now, req, rows0, atLimit>>

\* ------------------------------------------------------------ the table
\* A row of model ContactViewLimit.  "id" stands for the cuid primary key; the
\* model numbers the rows inserted under one (userId, date) from 0, which
\* keeps two rows of one key apart.
Row(u, d, c, i) == [userId |-> u, date |-> d, count |-> c, id |-> i]

RowsOf(t, u, d) == {x \in t : x.userId = u /\ x.date = d}

NewId(t, u, d) == Cardinality(RowsOf(t, u, d))

\* @@unique([userId, date]): an insert is accepted only when no row holds
\* the key; otherwise Prisma raises P2002.
UniqueViolatedNoConstraint(t, u, d) == FALSE

UniqueViolated(t, u, d) == RowsOf(t, u, d) # {}

\* prisma.contactViewLimit.findUnique: the count of the row, NoCount for null.
findUnique(t, u, d) ==
    IF RowsOf(t, u, d) = {} THEN NoCount
    ELSE (CHOOSE x \in RowsOf(t, u, d) : TRUE).count

\* (variant: the record is created already charged with one view)
createCharged(t, u, d) == t \cup {Row(u, d, 1, NewId(t, u, d))}

\* prisma.contactViewLimit.create with count: 0 (the caller checks P2002).
create(t, u, d) == t \cup {Row(u, d, 0, NewId(t, u, d))}

\* prisma.contactViewLimit.upsert of incrementViewCount: one atomic
\* INSERT .. ON CONFLICT (userId, date) DO UPDATE SET count = count + 1.
upsertLostUpdate(t, u, d) ==
    IF RowsOf(t, u, d) = {} THEN t \cup {Row(u, d, 1, 0)}
    ELSE {IF x \in RowsOf(t, u, d) THEN [x EXCEPT !.count = 1] ELSE x : x \in t}

\* (variant: the update matches on the date alone)
upsertAllUsers(t, u, d) ==
    IF RowsOf(t, u, d) = {} THEN t \cup {Row(u, d, 1, 0)}
    ELSE {IF x.date = d THEN [x EXCEPT !.count = @ + 1] ELSE x : x \in t}

\* (variant: the update matches on userId alone)
upsertAllDays(t, u, d) ==
    IF RowsOf(t, u, d) = {} THEN t \cup {Row(u, d, 1, 0)}
    ELSE {IF x.userId = u THEN [x EXCEPT !.count = @ + 1] ELSE x : x \in t}

upsertIncrement(t, u, d) ==
    IF RowsOf(t, u, d) = {} THEN t \cup {Row(u, d, 1, 0)}
    ELSE {IF x \in RowsOf(t, u, d) THEN [x EXCEPT !.count = @ + 1] ELSE x : x \in t}

\* --------------------------------------------------------- the library
\* (variant: the calendar date is taken with getFullYear/getMonth/getDate, in
\* the zone of a server that runs one tick ahead of UTC)
LocalDateOf(t) == (t + 1) \div TicksPerDay

\* now.getUTCFullYear(), now.getUTCMonth(), now.getUTCDate(): the UTC calendar
\* date of instant t, as the number of its day.
UTCDateOf(t) == t \div TicksPerDay

\* getStartOfToday: UTC midnight of the wall clock's UTC calendar date.
getStartOfToday == UTCDateOf(now)

\* hasReachedDailyLimit: viewLimit.count >= DAILY_LIMIT
hasReachedStrict(count) == count > DAILY_LIMIT

hasReachedDailyLimit(count) == count >= DAILY_LIMIT

\* getViewStats: used, remaining = Math.max(0, DAILY_LIMIT - used), limit.
getViewStatsNoClamp(count) ==
    [used |-> count, remaining |-> DAILY_LIMIT - count, limit |-> DAILY_LIMIT]

getViewStats(count) ==
    [used |-> count,
     remaining |-> IF DAILY_LIMIT - count > 0 THEN DAILY_LIMIT - count ELSE 0,
     limit |-> DAILY_LIMIT]

\* ------------------------------------------------------ request handlers
\* The local state of one handler.  pc is the await the handler is parked at.
\*   today        the key date held by a getOrCreateViewLimit call in progress
\*   seen         viewLimit.count as read by hasReachedDailyLimit
\*   checkDay     the key date of that read, kept until the request's increment
\*                or, by a blocked request, for good
\*   limitReached the value hasReachedDailyLimit returned (the 429 body carries it)
\*   fetched      prisma.contact.findUnique was issued
\*   incDay       the key date of the completed incrementViewCount
\*   stats        the viewStats the handler obtained
\*   contact      the response carries the contact's data
IdleReq ==
    [pc |-> "start", kind |-> "none", userId |-> NoUser, today |-> NoDay,
     seen |-> NoCount, checkDay |-> NoDay, limitReached |-> FALSE,
     fetched |-> FALSE,
     incDay |-> NoDay, stats |-> NoStats, outcome |-> "none",
     error |-> "none", contact |-> FALSE]

\* "contact": a contact-detail request, served by GET /api/contacts/[id] or by
\* ContactDetailPage; the two handlers make the same calls in the same order
\* and differ in how they present the outcome (ApiStatus, PageResult).
\* "stats": GET /api/view-stats.
Kinds == {"contact", "stats"}

\* The handler returns (or throws): nothing of it runs afterwards and its
\* local variables are gone.  What stays is the response (outcome, error,
\* limitReached, stats, contact) and the history of what it did (fetched, incDay).
Finish(r, outcome, error) ==
    [req[r] EXCEPT !.pc = "done", !.today = NoDay, !.seen = NoCount,
                   !.checkDay = NoDay,
                   !.outcome = outcome, !.error = error]

\* GET /api/contacts/[id] and GET /api/view-stats: the HTTP status of an outcome.
ApiStatus(outcome) ==
    CASE outcome = "UNAUTHENTICATED" -> 401
      [] outcome = "BLOCKED" -> 429
      [] outcome = "NOT_FOUND" -> 404
      [] outcome = "GRANTED" -> 200
      [] outcome = "FAILED" -> 500
      [] OTHER -> 0

\* ContactDetailPage: what the page does for an outcome.
PageResult(outcome) ==
    CASE outcome = "UNAUTHENTICATED" -> "redirect:/sign-in"
      [] outcome = "BLOCKED" -> "redirect:/upgrade"
      [] outcome = "NOT_FOUND" -> "Contact Not Found"
      [] outcome = "GRANTED" -> "contact card"
      [] outcome = "FAILED" -> "uncaught error"
      [] OTHER -> "none"

\* Requests of u that passed the limit check and have not yet incremented.
Pending(u) ==
    {r \in Reqs : req[r].userId = u /\ req[r].pc \in {"fetch", "increment"}}

\* Contact-detail requests of u in flight: the limit check has begun and the
\* increment has not completed.
InFlight(u) ==
    {r \in Reqs : req[r].userId = u
                  /\ req[r].pc \in {"check_find", "check_create", "fetch", "increment"}}

\* The table before the first request: no rows, or every user with a row for
\* day 0 that has been charged some views, up to the limit.  (A row with
\* count 0 comes about in a run from no rows, by a read.)
InitTables ==
    {{}} \cup {{Row(u, 0, c, 0) : u \in Users} : c \in 1..DAILY_LIMIT}

Init ==
    /\ rows \in InitTables
    /\ rows0 = rows
    /\ now = 0
    /\ req = [r \in Reqs |-> IdleReq]
    /\ atLimit = [u \in Users |-> [d \in Days |-> 0]]

\* (variant: the handler does not test userId and goes on with none)
StartUnguarded(r) ==
    /\ req[r].pc = "start"
    /\ \E k \in Kinds, u \in Users \cup {NoUser} :
          req' = [req EXCEPT ![r] =
                    [@ EXCEPT !.kind = k, !.userId = u,
                              !.pc = IF k = "stats" THEN "stats_find" ELSE "check_find"]]
    /\ UNCHANGED <<rows, now, rows0, atLimit>>

\* const { userId } = await auth(); if (!userId) -> 401 / redirect('/sign-in').
\* Then the handler issues its first quota call.
Start(r) ==
    /\ req[r].pc = "start"
    /\ \E k \in Kinds, u \in Users \cup {NoUser} :
          req' = [req EXCEPT ![r] =
                    IF u = NoUser
                    THEN [Finish(r, "UNAUTHENTICATED", "none") EXCEPT !.kind = k]
                    ELSE [@ EXCEPT !.kind = k, !.userId = u,
                                   !.pc = IF k = "stats" THEN "stats_find" ELSE "check_find"]]
    /\ UNCHANGED <<rows, now, rows0, atLimit>>

\* The key date of the getOrCreateViewLimit call that request r is in: the
\* one it holds from its findUnique, or the one it computes now.
KeyOfCall(r) == IF req[r].today # NoDay THEN req[r].today ELSE getStartOfToday

\* (variant: the handler ignores the value and goes on to fetch the contact)
AfterCheckNoBlock(r, count) ==
    [req[r] EXCEPT !.pc = "fetch", !.today = NoDay, !.seen = count,
                   !.checkDay = KeyOfCall(r),
                   !.limitReached = hasReachedDailyLimit(count)]

\* (variant: the limit is reported by throwing)
AfterCheckThrows(r, count) ==
    IF hasReachedDailyLimit(count)
    THEN [Finish(r, "FAILED", "LimitReached") EXCEPT !.limitReached = TRUE]
    ELSE [req[r] EXCEPT !.pc = "fetch", !.today = NoDay, !.seen = count,
                        !.checkDay = KeyOfCall(r),
                        !.limitReached = FALSE]

\* hasReachedDailyLimit returned count >= DAILY_LIMIT to the handler:
\* true -> 429 / redirect('/upgrade'); false -> go on to fetch the contact.
AfterCheck(r, count) ==
    IF hasReachedDailyLimit(count)
    THEN [Finish(r, "BLOCKED", "none") EXCEPT !.limitReached = TRUE,
                                              !.checkDay = KeyOfCall(r)]
    ELSE [req[r] EXCEPT !.pc = "fetch", !.today = NoDay, !.seen = count,
                        !.checkDay = KeyOfCall(r),
                        !.limitReached = FALSE]

\* (variant: a check that finds the limit reached starts the count afresh)
CheckFindResetting(r) ==
    /\ req[r].pc = "check_find"
    /\ LET u == req[r].userId
           c == findUnique(rows, u, getStartOfToday)
       IN /\ req' = [req EXCEPT ![r] =
                      IF c = NoCount
                      THEN [@ EXCEPT !.pc = "check_create", !.today = getStartOfToday]
                      ELSE AfterCheck(r, c)]
          /\ rows' = IF c # NoCount /\ hasReachedDailyLimit(c)
                     THEN {IF x \in RowsOf(rows, u, getStartOfToday)
                           THEN [x EXCEPT !.count = 0] ELSE x : x \in rows}
                     ELSE rows
    /\ UNCHANGED <<now, rows0, atLimit>>

\* getOrCreateViewLimit, first await: findUnique on (userId, today).
CheckFind(r) ==
    /\ req[r].pc = "check_find"
    /\ LET c == findUnique(rows, req[r].userId, getStartOfToday) IN
         req' = [req EXCEPT ![r] =
                    IF c = NoCount
                    THEN [@ EXCEPT !.pc = "check_create", !.today = getStartOfToday]
                    ELSE AfterCheck(r, c)]
    /\ UNCHANGED <<rows, now, rows0, atLimit>>

\* (variant: an insert that meets an existing key does not return)
CheckCreateBlocking(r) ==
    /\ req[r].pc = "check_create"
    /\ ~UniqueViolated(rows, req[r].userId, req[r].today)
    /\ rows' = create(rows, req[r].userId, req[r].today)
    /\ req' = [req EXCEPT ![r] = AfterCheck(r, 0)]
    /\ UNCHANGED <<now, rows0, atLimit>>

\* (variant: the create replaces a record that appeared in the meantime)
CheckCreateReset(r) ==
    /\ req[r].pc = "check_create"
    /\ rows' = (rows \ RowsOf(rows, req[r].userId, req[r].today))
                  \cup {Row(req[r].userId, req[r].today, 0, 0)}
    /\ req' = [req EXCEPT ![r] = AfterCheck(r, 0)]
    /\ UNCHANGED <<now, rows0, atLimit>>

\* getOrCreateViewLimit, second await: create (userId, today, count 0).
CheckCreate(r) ==
    /\ req[r].pc = "check_create"
    /\ IF UniqueViolated(rows, req[r].userId, req[r].today)
       THEN /\ req' = [req EXCEPT ![r] = Finish(r, "FAILED", "P2002")]
            /\ rows' = rows
       ELSE /\ rows' = create(rows, req[r].userId, req[r].today)
            /\ req' = [req EXCEPT ![r] = AfterCheck(r, 0)]
    /\ UNCHANGED <<now, rows0, atLimit>>

\* (variant: the view is charged before the handler looks at the lookup's result)
FetchContactCharging(r) ==
    /\ req[r].pc = "fetch"
    /\ rows' = upsertIncrement(rows, req[r].userId, getStartOfToday)
    /\ \E found \in BOOLEAN :
          req' = [req EXCEPT ![r] =
                    IF found
                    THEN [@ EXCEPT !.pc = "stats_find", !.fetched = TRUE,
                                   !.incDay = getStartOfToday, !.checkDay = NoDay]
                    ELSE [Finish(r, "NOT_FOUND", "none") EXCEPT
                              !.fetched = TRUE, !.incDay = getStartOfToday]]
    /\ UNCHANGED <<now, rows0, atLimit>>

\* prisma.contact.findUnique({ where: { id } }): null -> 404 / "Contact Not Found".
FetchContact(r) ==
    /\ req[r].pc = "fetch"
    /\ \E found \in BOOLEAN :
          req' = [req EXCEPT ![r] =
                    IF found
                    THEN [@ EXCEPT !.pc = "increment", !.fetched = TRUE]
                    ELSE [Finish(r, "NOT_FOUND", "none") EXCEPT !.fetched = TRUE]]
    /\ UNCHANGED <<rows, now, rows0, atLimit>>

\* (variant: the handler does not await incrementViewCount and reads the
\* usage at once)
IncrementNotAwaited(r) ==
    /\ req[r].pc = "increment"
    /\ req' = [req EXCEPT ![r] = [@ EXCEPT !.pc = "stats_find", !.checkDay = NoDay]]
    /\ UNCHANGED <<rows, now, rows0, atLimit>>

\* incrementViewCount: today = getStartOfToday(); upsert on (userId, today).
IncrementViewCount(r) ==
    /\ req[r].pc = "increment"
    /\ LET u == req[r].userId
           d == getStartOfToday
           t == upsertIncrement(rows, u, d)
       IN /\ rows' = t
          /\ req' = [req EXCEPT ![r] = [@ EXCEPT !.pc = "stats_find", !.incDay = d,
                                                  !.checkDay = NoDay]]
          /\ atLimit' = IF findUnique(t, u, d) = DAILY_LIMIT
                        THEN [atLimit EXCEPT ![u][d] = Cardinality(InFlight(u) \ {r})]
                        ELSE atLimit
    /\ UNCHANGED <<now, rows0>>

\* getViewStats returned to the handler, which answers 200 / renders the page.
AfterStats(r, count) ==
    [Finish(r, "GRANTED", "none") EXCEPT
        !.stats = getViewStats(count), !.contact = (req[r].kind # "stats")]

\* getViewStats -> getOrCreateViewLimit, first await.
StatsFind(r) ==
    /\ req[r].pc = "stats_find"
    /\ LET c == findUnique(rows, req[r].userId, getStartOfToday) IN
         req' = [req EXCEPT ![r] =
                    IF c = NoCount
                    THEN [@ EXCEPT !.pc = "stats_create", !.today = getStartOfToday]
                    ELSE AfterStats(r, c)]
    /\ UNCHANGED <<rows, now, rows0, atLimit>>

\* (variant: the create replaces a record that appeared in the meantime)
StatsCreateReset(r) ==
    /\ req[r].pc = "stats_create"
    /\ rows' = (rows \ RowsOf(rows, req[r].userId, req[r].today))
                  \cup {Row(req[r].userId, req[r].today, 0, 0)}
    /\ req' = [req EXCEPT ![r] = AfterStats(r, 0)]
    /\ UNCHANGED <<now, rows0, atLimit>>

\* getViewStats -> getOrCreateViewLimit, second await.
StatsCreate(r) ==
    /\ req[r].pc = "stats_create"
    /\ IF UniqueViolated(rows, req[r].userId, req[r].today)
       THEN /\ req' = [req EXCEPT ![r] = Finish(r, "FAILED", "P2002")]
            /\ rows' = rows
       ELSE /\ rows' = create(rows, req[r].userId, req[r].today)
            /\ req' = [req EXCEPT ![r] = AfterStats(r, 0)]
    /\ UNCHANGED <<now, rows0, atLimit>>

\* Any awaited database call may reject (connection lost, timeout): the
\* handler's catch answers 500; the page lets the error reach the framework.
StoragePcs ==
    {"check_find", "check_create", "fetch", "increment", "stats_find", "stats_create"}

\* (variant: a failed limit check is swallowed and read as "not reached")
StorageFailsOpen(r) ==
    /\ req[r].pc \in StoragePcs
    /\ req' = [req EXCEPT ![r] =
                 IF req[r].pc \in {"check_find", "check_create"}
                 THEN [@ EXCEPT !.pc = "fetch", !.today = NoDay,
                                !.error = "StorageUnavailable"]
                 ELSE Finish(r, "FAILED", "StorageUnavailable")]
    /\ UNCHANGED <<rows, now, rows0, atLimit>>

StorageFails(r) ==
    /\ req[r].pc \in StoragePcs
    /\ req' = [req EXCEPT ![r] = Finish(r, "FAILED", "StorageUnavailable")]
    /\ UNCHANGED <<rows, now, rows0, atLimit>>

\* The caller abandons the request (the client goes away, the platform drops
\* the invocation) while the handler awaits the contact lookup: after
\* hasReachedDailyLimit returned false and before incrementViewCount is
\* invoked.  Nothing of the handler runs afterwards and no response is sent.
Abandon(r) ==
    /\ req[r].pc = "fetch"
    /\ req' = [req EXCEPT ![r] = Finish(r, "ABANDONED", "none")]
    /\ UNCHANGED <<rows, now, rows0, atLimit>>

\* (variant: at midnight a clean-up removes the records of the days before)
TickPruning ==
    /\ getStartOfToday < MaxDay
    /\ now' = now + TicksPerDay
    /\ rows' = {x \in rows : x.date > getStartOfToday}
    /\ UNCHANGED <<req, rows0, atLimit>>

\* A day goes by: the wall clock passes UTC midnight.
Tick ==
    /\ getStartOfToday < MaxDay
    /\ now' = now + TicksPerDay
    /\ UNCHANGED <<rows, req, rows0, atLimit>>

Next ==
    \/ \E r \in Reqs : Start(r)
    \/ \E r \in Reqs : CheckFind(r)
    \/ \E r \in Reqs : CheckCreate(r)
    \/ \E r \in Reqs : FetchContact(r)
    \/ \E r \in Reqs : IncrementViewCount(r)
    \/ \E r \in Reqs : StatsFind(r)
    \/ \E r \in Reqs : StatsCreate(r)
    \/ \E r \in Reqs : StorageFails(r)
    \/ \E r \in Reqs : Abandon(r)
    \/ Tick

Spec == Init /\ [][Next]_vars

\* ======================================================================
\* Properties
\* ======================================================================
CountOf(t, u, d) == findUnique(t, u, d)

\* The requests whose incrementViewCount completed on key (u, d).
Incremented(u, d) == {r \in Reqs : req[r].userId = u /\ req[r].incDay = d}

\* The contact-detail requests that returned the contact, charged to (u, d).
Granted(u, d) ==
    {r \in Incremented(u, d) : req[r].kind = "contact" /\ req[r].outcome = "GRANTED"}

\* C1: for a record that exists with count c, once the M incrementViewCount
\* calls issued for its key have completed, in whatever interleaving, the
\* count is exactly c + M.
C1_ExactIncrement ==
    \A u \in Users, d \in Days :
        (/\ RowsOf(rows0, u, d) # {}
         /\ \A r \in Reqs : req[r].userId = u => req[r].pc # "increment")
        => CountOf(rows, u, d) = CountOf(rows0, u, d) + Cardinality(Incremented(u, d))

\* Two increments of one user that ran concurrently (both passed the check on
\* the same count) have both been applied to a record that existed before.
C1_Witness ==
    \E u \in Users, r1, r2 \in Reqs :
        /\ r1 # r2
        /\ CountOf(rows0, u, 0) = 1
        /\ {r1, r2} \subseteq Incremented(u, 0)
        /\ req[r1].seen = 1 /\ req[r2].seen = 1
        /\ CountOf(rows, u, 0) = 3

\* C2: the table never holds two rows for one (userId, day).
C2_OneRowPerKey ==
    \A u \in Users, d \in Days : Cardinality(RowsOf(rows, u, d)) <= 1

\* Two getOrCreateViewLimit calls raced to create one key and an increment
\* followed: the key has one row.
C2_Witness ==
    \E u \in Users, d \in Days, r1, r2 \in Reqs :
        /\ r1 # r2
        /\ RowsOf(rows0, u, d) = {}
        /\ req[r1].userId = u /\ req[r1].error = "P2002"
        /\ req[r2].userId = u /\ req[r2].incDay = d
        /\ Cardinality(RowsOf(rows, u, d)) = 1

\* C3 (as claimed): no getOrCreateViewLimit call ends with the error for the
\* record already existing (Prisma P2002), however the calls interleave.
C3_NoAlreadyExistsError ==
    \A r \in Reqs : req[r].error # "P2002"

\* C4 (as claimed): per user and UTC day, the views granted (those recorded
\* before the first request of the run included) number at most DAILY_LIMIT.
C4_GrantedAtMostLimit ==
    \A u \in Users, d \in Days :
        (IF RowsOf(rows0, u, d) = {} THEN 0 ELSE CountOf(rows0, u, d))
            + Cardinality(Granted(u, d)) <= DAILY_LIMIT

C6_IncrementIffReturned ==
    \A r \in Reqs :
        (req[r].kind = "contact" /\ req[r].pc = "done")
        => ((req[r].incDay # NoDay) <=> (ApiStatus(req[r].outcome) = 200))

\* C7: a request ends NOT_FOUND only from the contact lookup, after its
\* hasReachedDailyLimit returned false; the step leaves the table as it was,
\* and the request has issued no increment and returns no contact data.
C7_NoIncrementOnNotFound ==
    [][\A r \in Reqs :
        (req[r].outcome # "NOT_FOUND" /\ req'[r].outcome = "NOT_FOUND")
        => /\ req[r].pc = "fetch" /\ req[r].seen # NoCount /\ ~req[r].limitReached
           /\ rows' = rows
           /\ req'[r].pc = "done" /\ req'[r].fetched
           /\ req'[r].incDay = NoDay /\ ~req'[r].contact
           /\ ApiStatus(req'[r].outcome) = 404
           /\ PageResult(req'[r].outcome) = "Contact Not Found"]_vars

\* A request ended NOT_FOUND and its user's count for the day is what it was.
C7_Witness ==
    \E r \in Reqs :
        /\ req[r].outcome = "NOT_FOUND"
        /\ CountOf(rows0, req[r].userId, 0) = 1
        /\ CountOf(rows, req[r].userId, 0) = 1

\* C8: a request whose hasReachedDailyLimit returned true ends BLOCKED (429 /
\* redirect to /upgrade) with no contact lookup, no contact data, no
\* increment and no statistics read; and only such requests end BLOCKED.
C8_BlockedDoesNothing ==
    \A r \in Reqs :
        /\ req[r].limitReached
           => /\ req[r].pc = "done" /\ req[r].outcome = "BLOCKED"
              /\ ApiStatus(req[r].outcome) = 429
              /\ PageResult(req[r].outcome) = "redirect:/upgrade"
              /\ ~req[r].fetched /\ ~req[r].contact
              /\ req[r].incDay = NoDay /\ req[r].stats = NoStats
        /\ req[r].outcome = "BLOCKED" => req[r].limitReached

\* A request was blocked at the limit.
C8_Witness ==
    \E r \in Reqs :
        /\ req[r].outcome = "BLOCKED"
        /\ CountOf(rows, req[r].userId, getStartOfToday) = DAILY_LIMIT

\* The key date of the getOrCreateViewLimit call that request r completes in
\* the current step.
CallDay(r) ==
    IF req[r].pc \in {"check_create", "stats_create"} THEN req[r].today ELSE getStartOfToday

\* hasReachedDailyLimit returns to request r in the current step.
CheckReturns(r) ==
    /\ req[r].pc \in {"check_find", "check_create"}
    /\ \/ req'[r].pc = "fetch"
       \/ req'[r].outcome = "BLOCKED"

\* C9: when hasReachedDailyLimit(u) returns, its value is true exactly when
\* the count of u's record for the call's UTC day is >= DAILY_LIMIT (the
\* record exists by then, with count 0 for a user who had none).
C9_LimitBoundary ==
    [][\A r \in Reqs :
        CheckReturns(r)
        => /\ RowsOf(rows', req[r].userId, CallDay(r)) # {}
           /\ req'[r].limitReached =
                 (CountOf(rows', req[r].userId, CallDay(r)) >= DAILY_LIMIT)]_vars

\* One call returned false at DAILY_LIMIT - 1, another true at DAILY_LIMIT.
C9_Witness ==
    \E r1, r2 \in Reqs :
        /\ req[r1].seen = DAILY_LIMIT - 1 /\ ~req[r1].limitReached
        /\ req[r2].userId = req[r1].userId
        /\ req[r2].outcome = "BLOCKED" /\ req[r2].limitReached
        /\ CountOf(rows, req[r2].userId, getStartOfToday) = DAILY_LIMIT

\* C10: when getViewStats(u) returns, used is the count of u's record for
\* the call's day, limit is DAILY_LIMIT and remaining is max(0, limit - used),
\* never negative.
C10_ViewStats ==
    [][\A r \in Reqs :
        (req[r].stats = NoStats /\ req'[r].stats # NoStats)
        => LET used == CountOf(rows', req[r].userId, CallDay(r)) IN
           /\ req'[r].stats.used = used
           /\ req'[r].stats.limit = DAILY_LIMIT
           /\ req'[r].stats.remaining =
                 (IF DAILY_LIMIT - used >= 0 THEN DAILY_LIMIT - used ELSE 0)
           /\ req'[r].stats.remaining >= 0]_vars

\* Statistics were read after an overshoot: used > limit, remaining 0.
C10_Witness ==
    \E r \in Reqs :
        /\ req[r].stats # NoStats
        /\ req[r].stats.used > req[r].stats.limit
        /\ req[r].stats.remaining = 0

\* Request r takes the current step.
StepOf(r) == req'[r] # req[r]

\* C11 (as claimed): a hasReachedDailyLimit(u) query that finds no record for
\* its day D+1, while u's count for day D is >= DAILY_LIMIT, returns false (if
\* the database answers at all), having created the record of (u, D+1) with
\* count 0 and left the record of (u, D) alone.
C11_RolloverResets ==
    [][\A r \in Reqs :
        (/\ req[r].pc = "check_create" /\ req[r].today >= 1
         /\ CountOf(rows, req[r].userId, req[r].today - 1) >= DAILY_LIMIT
         /\ StepOf(r) /\ req'[r].error # "StorageUnavailable")
        => /\ req'[r].pc = "fetch" /\ ~req'[r].limitReached
           /\ CountOf(rows', req[r].userId, req[r].today) = 0
           /\ RowsOf(rows', req[r].userId, req[r].today - 1)
                = RowsOf(rows, req[r].userId, req[r].today - 1)]_vars

\* The count a key stands at: 0 while it has no record.
Count0(t, u, d) == IF RowsOf(t, u, d) = {} THEN 0 ELSE CountOf(t, u, d)

\* incrementViewCount's upsert of request r executes in the current step.
IncrementStep(r) == req[r].pc = "increment" /\ req'[r].incDay # NoDay

\* C12: incrementViewCount(u), executed on day d1, changes the record of
\* (u, d1) and no other: u's record of any other day d2 is neither created,
\* changed nor removed by the call.
C12_OtherDaysUntouched ==
    [][\A r \in Reqs :
        IncrementStep(r)
        => /\ RowsOf(rows', req[r].userId, req'[r].incDay)
                # RowsOf(rows, req[r].userId, req'[r].incDay)
           /\ \A d2 \in Days \ {req'[r].incDay} :
                RowsOf(rows', req[r].userId, d2) = RowsOf(rows, req[r].userId, d2)]_vars

\* A view was charged to day 1 while the user's record of day 0 stood at a
\* count it had from the start.
C12_Witness ==
    \E r \in Reqs :
        /\ req[r].incDay = 1
        /\ CountOf(rows, req[r].userId, 1) >= 2
        /\ CountOf(rows0, req[r].userId, 0) = 1
        /\ CountOf(rows, req[r].userId, 0) = 1

\* C13: the count of a record is never negative, and no step removes an
\* existing record, lowers its count or resets it.
C13_CountMonotonic ==
    [][/\ \A x \in rows \cup rows' : x.count >= 0
       /\ \/ rows' = rows
          \/ \A x \in rows :
                \E y \in rows' : /\ y.userId = x.userId /\ y.date = x.date
                                 /\ y.count >= x.count]_vars

\* A record that did not exist at the start was read by getViewStats at
\* count 1 and stands at 2.
C13_Witness ==
    \E u \in Users :
        /\ RowsOf(rows0, u, 0) = {}
        /\ CountOf(rows, u, 0) = 2
        /\ \E r \in Reqs :
             req[r].userId = u /\ req[r].outcome = "GRANTED" /\ req[r].stats.used = 1

\* getOrCreateViewLimit returns to request r in the current step.
GetOrCreateReturns(r) ==
    /\ req[r].pc \in {"check_find", "check_create", "stats_find", "stats_create"}
    /\ \/ req'[r].pc = "fetch"
       \/ req'[r].outcome \in {"BLOCKED", "GRANTED"}

\* The count carried by the record that getOrCreateViewLimit returns to r.
ReturnedCount(r) ==
    IF req[r].pc \in {"check_find", "check_create"}
    THEN (IF req'[r].pc = "fetch" THEN req'[r].seen ELSE DAILY_LIMIT)
    ELSE req'[r].stats.used

\* C14: on a key that no increment has touched, every getOrCreateViewLimit
\* call that returns gives count 0 and leaves exactly one record, with count
\* 0, for the key; a call that finds the record changes nothing in the table.
C14_GetOrCreateIdempotent ==
    [][\A r \in Reqs :
        LET u == req[r].userId
            d == CallDay(r)
        IN (/\ GetOrCreateReturns(r)
            /\ Count0(rows0, u, d) = 0
            /\ Incremented(u, d) = {})
           => /\ ReturnedCount(r) = 0
              /\ Cardinality(RowsOf(rows', u, d)) = 1
              /\ CountOf(rows', u, d) = 0
              /\ RowsOf(rows, u, d) # {} => rows' = rows]_vars

\* Two getViewStats calls of one user, made on a day for which the user had
\* no record and no view, both returned used = 0 and left one record.
C14_Witness ==
    \E u \in Users :
        /\ RowsOf(rows0, u, 0) = {}
        /\ \A r \in Reqs :
             /\ req[r].userId = u /\ req[r].kind = "stats"
             /\ req[r].outcome = "GRANTED" /\ req[r].stats.used = 0
        /\ Cardinality(RowsOf(rows, u, 0)) = 1
        /\ getStartOfToday = 0

\* ------------------------------------------------ one request at a time
\* No handler is between its first and its last await.
Quiet == \A r \in Reqs : req[r].pc \in {"start", "done"}

\* A request arrives while no other is being handled.
StartAlone(r) == Quiet /\ Start(r)

\* Midnight passes between two requests.
TickBetween == Quiet /\ Tick

\* Requests handled strictly one after another, each within one UTC day, by
\* a database that answers every call.
NextSeq ==
    \/ \E r \in Reqs : StartAlone(r)
    \/ \E r \in Reqs : CheckFind(r)
    \/ \E r \in Reqs : CheckCreate(r)
    \/ \E r \in Reqs : FetchContact(r)
    \/ \E r \in Reqs : IncrementViewCount(r)
    \/ \E r \in Reqs : StatsFind(r)
    \/ \E r \in Reqs : StatsCreate(r)
    \/ TickBetween

SpecSeq == Init /\ [][NextSeq]_vars

\* The views of (u, d) counted before the k-th: those the record started with
\* and those granted since.
ViewsSoFar(u, d) == Count0(rows0, u, d) + Cardinality(Granted(u, d))

\* C15: with requests for existing contacts handled one at a time within a
\* day, the k-th of a user is granted for 1 <= k <= DAILY_LIMIT, brings the
\* count to k and reports {used: k, remaining: DAILY_LIMIT - k, limit:
\* DAILY_LIMIT}; from request DAILY_LIMIT + 1 on the user is blocked and the
\* count stays at DAILY_LIMIT.  No request fails.
C15_SequentialQuota ==
    [][\A r \in Reqs :
        LET u == req[r].userId IN
        /\ req'[r].outcome # "FAILED"
        /\ CheckReturns(r)
           => LET k == ViewsSoFar(u, CallDay(r)) + 1 IN
              /\ req'[r].limitReached = (k > DAILY_LIMIT)
              /\ req'[r].limitReached
                 => /\ req'[r].outcome = "BLOCKED"
                    /\ rows' = rows
                    /\ CountOf(rows, u, CallDay(r)) = DAILY_LIMIT
        /\ (req[r].kind = "contact" /\ req[r].pc # "done" /\ req'[r].outcome = "GRANTED")
           => LET k == ViewsSoFar(u, req[r].incDay)' IN
              /\ k \in 1..DAILY_LIMIT
              /\ CountOf(rows', u, req[r].incDay) = k
              /\ req'[r].stats = [used |-> k, remaining |-> DAILY_LIMIT - k,
                                  limit |-> DAILY_LIMIT]]_vars

\* A user without a record made DAILY_LIMIT requests, one after the other:
\* the first was answered with used 1, the last with used DAILY_LIMIT and
\* nothing remaining.
C15_Witness ==
    \E u \in Users, r1, r2 \in Reqs :
        /\ RowsOf(rows0, u, 0) = {}
        /\ req[r1].userId = u /\ req[r2].userId = u
        /\ req[r1].outcome = "GRANTED" /\ req[r1].kind = "contact"
        /\ req[r1].stats = [used |-> 1, remaining |-> DAILY_LIMIT - 1, limit |-> DAILY_LIMIT]
        /\ req[r2].outcome = "GRANTED" /\ req[r2].kind = "contact"
        /\ req[r2].stats = [used |-> DAILY_LIMIT, remaining |-> 0, limit |-> DAILY_LIMIT]
        /\ CountOf(rows, u, 0) = DAILY_LIMIT

\* C16: a failed storage call of hasReachedDailyLimit, incrementViewCount or
\* getViewStats reaches the handler as the failure it is, never as a result
\* "allowed" or "blocked": the request ends there, GET /api/contacts/[id]
\* answers 500, and neither the contact nor usage figures are returned.
C16_StorageFailurePropagates ==
    \A r \in Reqs :
        req[r].error # "none"
        => /\ req[r].pc = "done"
           /\ req[r].outcome = "FAILED"
           /\ ApiStatus(req[r].outcome) = 500
           /\ ~req[r].contact
           /\ ~req[r].limitReached
           /\ req[r].stats = NoStats

\* The database failed one request inside its limit check and another after
\* its view had been counted.
C16_Witness ==
    \E r1, r2 \in Reqs :
        /\ req[r1].kind = "contact" /\ req[r1].error = "StorageUnavailable"
        /\ ~req[r1].fetched
        /\ req[r2].kind = "contact" /\ req[r2].error = "StorageUnavailable"
        /\ req[r2].incDay # NoDay

\* C17: a contact-detail request is answered 429 only by its own limit check
\* having read a count >= DAILY_LIMIT; and a limit check whose findUnique is
\* answered while the user's count for the day is >= DAILY_LIMIT ends in 429,
\* never in 500 or anything else.
C17_BlockedIs429 ==
    [][\A r \in Reqs :
        LET u == req[r].userId
            over == CountOf(rows, u, CallDay(r)) >= DAILY_LIMIT
        IN /\ (req[r].pc # "done" /\ ApiStatus(req'[r].outcome) = 429)
              => /\ req[r].pc \in {"check_find", "check_create"}
                 /\ over
           /\ (/\ req[r].pc = "check_find"
               /\ StepOf(r) /\ over
               /\ req'[r].error # "StorageUnavailable")
              => /\ ApiStatus(req'[r].outcome) = 429
                 /\ req'[r].error = "none"]_vars

\* A user at the limit was answered 429 while another request of theirs was
\* failed by the database.
C17_Witness ==
    \E r1, r2 \in Reqs :
        /\ req[r1].userId = req[r2].userId
        /\ req[r1].outcome = "BLOCKED" /\ ApiStatus(req[r1].outcome) = 429
        /\ req[r2].outcome = "FAILED"
        /\ CountOf(rows, req[r1].userId, getStartOfToday) >= DAILY_LIMIT

\* C18: the count of a key changes only in the step that executes the
\* incrementViewCount call of a request that passed the limit check and
\* fetched its contact, by exactly 1, and a request makes that step at most
\* once; a request abandoned between the check and the increment leaves every
\* record as it was and has charged nothing.
C18_ChargedOnlyAtIncrement ==
    [][/\ \A u \in Users, d \in Days :
            (rows' # rows /\ Count0(rows', u, d) # Count0(rows, u, d))
            => /\ Count0(rows', u, d) = Count0(rows, u, d) + 1
               /\ \E r \in Reqs :
                    /\ req[r].pc = "increment" /\ req[r].userId = u
                    /\ req[r].fetched /\ ~req[r].limitReached
                    /\ req[r].incDay = NoDay /\ req'[r].incDay = d
       /\ \A r \in Reqs :
            (req[r].pc # "done" /\ req'[r].outcome = "ABANDONED")
            => /\ req[r].pc = "fetch" /\ ~req[r].limitReached
               /\ rows' = rows
               /\ req'[r].incDay = NoDay]_vars

\* A request was abandoned after its limit check had let it through, and its
\* user's counts are what they were at the start.
C18_Witness ==
    \E r \in Reqs :
        /\ req[r].outcome = "ABANDONED" /\ req[r].kind = "contact"
        /\ \A q \in Reqs \ {r} : req[q].userId # req[r].userId
        /\ RowsOf(rows, req[r].userId, 0) # RowsOf(rows0, req[r].userId, 0)
        /\ \A d \in Days : Count0(rows, req[r].userId, d) = Count0(rows0, req[r].userId, d)

\* C19: in every reachable state the count of each (userId, day) is the count
\* it started with plus the number of incrementViewCount calls completed for
\* that key: a record created with count 0 by a read never overwrites or
\* discards an increment.
C19_CountIsIncrements ==
    \A u \in Users, d \in Days :
        Count0(rows, u, d) = Count0(rows0, u, d) + Cardinality(Incremented(u, d))

\* A getOrCreateViewLimit call that found no record for day 1 attempted its
\* create after another request had made the record, and the view charged to
\* that day is counted.
C19_Witness ==
    \E r, q \in Reqs :
        /\ req[r].userId = req[q].userId
        /\ RowsOf(rows0, req[r].userId, 0) # {}
        /\ req[r].incDay = 1 /\ req[r].pc = "done"
        /\ req[q].pc = "done" /\ req[q].error = "P2002"
        /\ CountOf(rows, req[r].userId, 1) = 1

\* C20: incrementViewCount(u), executed when u has no record for the day,
\* creates that record with count 1; executed when the record exists, it
\* raises its count by exactly 1.  Either way the key has one record after.
C20_IncrementCreatesOrAdds ==
    [][\A r \in Reqs :
        IncrementStep(r)
        => LET u == req[r].userId
               d == req'[r].incDay
           IN /\ d = getStartOfToday
              /\ Cardinality(RowsOf(rows', u, d)) = 1
              /\ CountOf(rows', u, d) =
                    IF RowsOf(rows, u, d) = {} THEN 1 ELSE CountOf(rows, u, d) + 1]_vars

\* A request that passed the check on day 0 has just executed its increment
\* on day 1, where its user had no record: the record exists with count 1,
\* and nobody else has touched it.
C20_Witness ==
    \E r \in Reqs :
        /\ req[r].pc = "stats_find" /\ req[r].incDay = 1
        /\ RowsOf(rows0, req[r].userId, 0) = {}
        /\ CountOf(rows, req[r].userId, 0) = 0
        /\ CountOf(rows, req[r].userId, 1) = 1
        /\ \A q \in Reqs \ {r} : req[q].pc = "start"

Keys(t) == {<<x.userId, x.date>> : x \in t}

\* C22: the set of keys that have a record only grows; no step deletes a
\* record, and a step changes an existing record only by adding 1 to its
\* count, which is the upsert of an incrementViewCount call on that key.
C22_RecordsOnlyGrow ==
    [][\/ rows' = rows
       \/ /\ Keys(rows) \subseteq Keys(rows')
          /\ \A x \in rows :
                \/ x \in rows'
                \/ /\ [x EXCEPT !.count = @ + 1] \in rows'
                   /\ \E r \in Reqs :
                        /\ IncrementStep(r)
                        /\ req[r].userId = x.userId /\ req'[r].incDay = x.date]_vars

\* A user who started without any record has one for day 0, charged with a
\* view, and one for day 1.
C22_Witness ==
    \E u \in Users :
        /\ rows0 = {}
        /\ CountOf(rows, u, 0) >= 1
        /\ RowsOf(rows, u, 1) # {}

\* -------------------------------------------------- the clock, tick by tick
\* The wall clock moves on by one tick.
TickInstant ==
    /\ now + 1 < TicksPerDay * (MaxDay + 1)
    /\ now' = now + 1
    /\ UNCHANGED <<rows, req, rows0, atLimit>>

\* Requests handled one after another while the clock runs on at its own
\* pace: every reading of the clock can fall on any instant of any day.
NextClock ==
    \/ \E r \in Reqs : StartAlone(r)
    \/ \E r \in Reqs : CheckFind(r)
    \/ \E r \in Reqs : CheckCreate(r)
    \/ \E r \in Reqs : FetchContact(r)
    \/ \E r \in Reqs : IncrementViewCount(r)
    \/ \E r \in Reqs : StatsFind(r)
    \/ \E r \in Reqs : StatsCreate(r)
    \/ TickInstant

SpecClock == Init /\ [][NextClock]_vars

\* Instants t1 and t2 lie in the same UTC calendar day.
SameUTCDay(t1, t2) ==
    \E d \in Days : /\ d * TicksPerDay <= t1 /\ t1 < (d + 1) * TicksPerDay
                    /\ d * TicksPerDay <= t2 /\ t2 < (d + 1) * TicksPerDay

\* Request r reads the clock in the current step: the key it computed.
ClockReadBy(r) ==
    IF req[r].pc = "increment" THEN req'[r].incDay ELSE req'[r].today

\* C23: whenever a call computes its key, the key is UTC midnight of the UTC
\* calendar day of the instant on the wall clock: the midnight at or before
\* the instant and less than a day before it.  Hence instants of one UTC day
\* give one key and instants of different UTC days give different keys; and
\* the key is a function of the wall clock alone, whatever the request
\* carries.
C23_KeyIsUtcMidnight ==
    [][/\ \A r \in Reqs :
            (\/ (req[r].pc = "increment" /\ req'[r].pc = "stats_find")
             \/ (req[r].pc = "check_find" /\ req'[r].pc = "check_create")
             \/ (req[r].pc = "stats_find" /\ req'[r].pc = "stats_create"))
            => /\ ClockReadBy(r) = getStartOfToday
               /\ ClockReadBy(r) * TicksPerDay <= now
               /\ now < (ClockReadBy(r) + 1) * TicksPerDay
       /\ \A t \in 0..(TicksPerDay * (MaxDay + 1) - 1) :
            SameUTCDay(t, now) <=> UTCDateOf(t) = getStartOfToday]_vars

\* A view was charged on day 0 and another at the first instant of day 1:
\* each went to the key of its own UTC day.
C23_Witness ==
    \E r, q \in Reqs :
        /\ now = TicksPerDay
        /\ req[q].pc = "stats_find" /\ req[q].incDay = 1
        /\ req[r].pc = "done" /\ req[r].incDay = 0
        /\ req[r].userId = req[q].userId
        /\ CountOf(rows, req[r].userId, 0) = 1
        /\ CountOf(rows, req[r].userId, 1) = 1

\* ------------------------------------------------------------- progress
\* The storage call that handler r awaits completes, and r runs on to its
\* next await or to its return.
Proceed(r) ==
    \/ CheckFind(r)
    \/ CheckCreate(r)
    \/ FetchContact(r)
    \/ IncrementViewCount(r)
    \/ StatsFind(r)
    \/ StatsCreate(r)

\* Every invocation is run to its end by the platform.
NextLive ==
    \/ \E r \in Reqs : Start(r)
    \/ \E r \in Reqs : Proceed(r)
    \/ \E r \in Reqs : StorageFails(r)
    \/ Tick

\* An awaited storage call completes unless it fails: the event loop resumes
\* the handler once the database has answered.
SpecLive ==
    /\ Init /\ [][NextLive]_vars
    /\ \A r \in Reqs : WF_vars(Proceed(r))

\* C24: every GET /api/contacts/[id] request that has arrived ends with one of
\* the answers 401, 429, 404, 200, 500, whatever the other requests do, and
\* an answer once given stays the request's answer.
C24_EveryRequestAnswered ==
    /\ \A r \in Reqs :
          (req[r].pc # "start" /\ req[r].kind = "contact")
          ~> (/\ req[r].pc = "done"
              /\ ApiStatus(req[r].outcome) \in {401, 429, 404, 200, 500})
    /\ [][\A r \in Reqs : req[r].pc = "done" => req'[r] = req[r]]_vars

\* A contact-detail request has been answered 500 after its create ran into
\* the record another request had inserted.
C24_Witness ==
    \E r \in Reqs :
        /\ req[r].kind = "contact" /\ req[r].pc = "done"
        /\ req[r].error = "P2002" /\ ApiStatus(req[r].outcome) = 500

\* C25 (as claimed): the increment of a contact-detail request is charged to
\* the (userId, day) key that the request's own limit check read.
C25_IncrementOnCheckedKey ==
    [][\A r \in Reqs :
        IncrementStep(r) => req'[r].incDay = req[r].checkDay]_vars

\* C26 (as claimed): the usage returned by a GRANTED contact-detail request
\* counts the request's own view: used is at least 1 and at least one more
\* than the count its limit check observed.
C26_UsageCountsOwnView ==
    [][\A r \in Reqs :
        (req[r].kind = "contact" /\ req[r].pc # "done" /\ req'[r].outcome = "GRANTED")
        => /\ req'[r].stats.used >= 1
           /\ req'[r].stats.used >= req[r].seen + 1]_vars

\* The records of user u.
RowsOfUser(t, u) == {x \in t : x.userId = u}

\* C27: a step of a request of user u1 creates or changes no record of any
\* other user, and what a step of a request of u2 does to the table and
\* returns to its handler is determined by u2's own records: a limit
\* decision by the count of u2's key, usage figures likewise.
C27_UsersIsolated ==
    [][\A r \in Reqs :
        StepOf(r)
        => LET u == req[r].userId' IN
           /\ \/ rows' = rows
              \/ \A u2 \in Users \ {u} : RowsOfUser(rows', u2) = RowsOfUser(rows, u2)
           /\ CheckReturns(r)
              => req'[r].limitReached
                   = hasReachedDailyLimit(Count0(rows', u, CallDay(r)))
           /\ (req[r].pc # "done" /\ req'[r].outcome = "GRANTED")
              => req'[r].stats = getViewStats(Count0(rows', u, CallDay(r)))]_vars

\* One user has been granted a view that took them to the limit; the other,
\* whose record is as it was, has passed the limit check on their own count.
C27_Witness ==
    \E r1, r2 \in Reqs :
        /\ req[r1].userId # req[r2].userId
        /\ req[r1].outcome = "GRANTED" /\ req[r1].kind = "contact"
        /\ CountOf(rows, req[r1].userId, 0) = DAILY_LIMIT
        /\ req[r2].pc = "fetch" /\ ~req[r2].limitReached
        /\ req[r2].seen = DAILY_LIMIT - 1
        /\ RowsOfUser(rows, req[r2].userId) = RowsOfUser(rows0, req[r2].userId)

\* C28: once hasReachedDailyLimit(u) has returned true on the key of day D,
\* every hasReachedDailyLimit(u) call that returns afterwards on the key of
\* the same day D returns true, and its request is blocked.
C28_BlockedStaysBlocked ==
    [][\A r, q \in Reqs :
        (/\ CheckReturns(r)
         /\ req[q].outcome = "BLOCKED" /\ req[q].userId = req[r].userId
         /\ req[q].checkDay = CallDay(r))
        => /\ req'[r].limitReached
           /\ req'[r].outcome = "BLOCKED"]_vars

\* Two requests of one user were blocked, one after the other, on the key of
\* the same day.
C28_Witness ==
    \E r, q \in Reqs :
        /\ r # q /\ req[r].userId = req[q].userId
        /\ req[r].outcome = "BLOCKED" /\ req[q].outcome = "BLOCKED"
        /\ req[r].checkDay = req[q].checkDay

\* C29: a request without an authenticated userId is rejected in its first
\* step, 401 from the API routes and redirect to /sign-in from the pages,
\* before any quota operation: the step leaves the table as it was, the
\* request looks up no contact and reads no usage, no request runs a storage
\* call without a userId, and no record is ever held for "no user".
C29_UnauthenticatedRejectedFirst ==
    [][/\ \A r \in Reqs :
            /\ (req[r].pc # "done" /\ req'[r].outcome = "UNAUTHENTICATED")
               => /\ req[r].pc = "start" /\ req'[r].pc = "done"
                  /\ rows' = rows
                  /\ ApiStatus(req'[r].outcome) = 401
                  /\ PageResult(req'[r].outcome) = "redirect:/sign-in"
                  /\ ~req'[r].fetched /\ ~req'[r].contact
                  /\ req'[r].seen = NoCount /\ req'[r].incDay = NoDay
                  /\ req'[r].stats = NoStats
            /\ (req[r].pc = "start" /\ req'[r].pc # "start" /\ req'[r].userId = NoUser)
               => req'[r].outcome = "UNAUTHENTICATED"
            /\ req'[r].pc \in StoragePcs => req'[r].userId \in Users
       /\ \A x \in rows' : x.userId \in Users]_vars

\* A contact-detail request and a usage request, both without a userId, have
\* been turned away, and the table is what it was.
C29_Witness ==
    \E r, q \in Reqs :
        /\ req[r].kind = "contact" /\ req[r].outcome = "UNAUTHENTICATED"
        /\ req[q].kind = "stats" /\ req[q].outcome = "UNAUTHENTICATED"
        /\ rows = rows0 /\ rows # {}

====
